---- MODULE Spec2Model ----
(***************************************************************************)
(* A model of datasets/Coco-Needle/split_coco_json.py: the stratified      *)
(* train/val/test split of a COCO-style annotation document.               *)
(*                                                                         *)
(* One run of split_coco_json is a straight line of steps; pc names the    *)
(* step about to execute.  The inputs of a run (the three ratios, the      *)
(* content of the input file and whether it can be read, and what the file *)
(* system answers to each write) are chosen in Init.  Floating point       *)
(* ratios are represented exactly, as integer multiples of 1/RatioDen.     *)
(***************************************************************************)
EXTENDS Integers, Sequences, FiniteSets, TLC

\* ---------------------------------------------------------------- bounds
MaxImages == 3      \* longest images list enumerated
MaxAnns == 2        \* longest annotations list enumerated
StreamMax == 3      \* raw values of the generator are 0..StreamMax-1
MaxRuns == 2        \* runs of split_coco_json in one process

\* ------------------------------------------------------ program constants
RatioDen == 10000000                \* ratios are multiples of 1e-7
Tolerance == 10                     \* 1e-6, in units of 1/RatioDen
Seed == 42

\* --------------------------------------------------------------- helpers
Range(s) == {s[i] : i \in 1..Len(s)}

SeqUpTo(S, n) == UNION {[1..k -> S] : k \in 0..n}

Abs(x) == IF x < 0 THEN -x ELSE x

\* int(x): truncation toward zero of the rational num/den (den > 0).  For
\* every ratio and list length of this model the float product total * ratio
\* truncates to the same integer as the exact product.
IntTrunc(num, den) == IF num >= 0 THEN num \div den ELSE -((-num) \div den)

\* Python's slice items[lo:hi] on a list of length n (indices 0-based; a
\* negative index counts from the end; indices are clamped to 0..n)
ClampIndex(i, n) == IF i < 0 THEN (IF i + n < 0 THEN 0 ELSE i + n)
                    ELSE (IF i > n THEN n ELSE i)

PySlice(items, lo, hi) ==
    LET n == Len(items)
        l == ClampIndex(lo, n)
        h == ClampIndex(hi, n)
    IN  IF h <= l THEN <<>> ELSE SubSeq(items, l + 1, h)

\* ------------------------------------------------------------ input data
\* An image record: its id and the rest of its content (file_name stands
\* for every other field).  Two records are the same dict when both agree.
Img(i) == [id |-> i, file_name |-> "a"]
ImgB(i) == [id |-> i, file_name |-> "b"]
ImageRecords == {Img(1), Img(2), Img(3), ImgB(1)}

\* An annotation record.  No image has id 4.
Ann(i, c) == [image_id |-> i, category_id |-> c]
Categories == {0, 1, 2}
AnnRecords == [image_id : {1, 2, 4}, category_id : Categories]

\* The call's ratios <<train_ratio, val_ratio, test_ratio>>, in 1/RatioDen.
DefaultRatios == <<8000000, 1000000, 1000000>>        \* 0.8, 0.1, 0.1 (line 10)
RatioChoices ==
    { DefaultRatios,
      <<5000000, 5000000, 0>>,                        \* 0.5, 0.5, 0.0
      <<3333333, 3333333, 3333333>>,                  \* sum 0.9999999
      <<5000000, -5000000, 10000000>>,                \* 0.5, -0.5, 1.0
      <<8000000, 1000000, 500000>>,                   \* 0.8, 0.1, 0.05
      <<8000000, 1000000, 1000010>> }                 \* sum 1.000001

\* ------------------------------------------------------------ file paths
Files == {"train.json", "val.json", "test.json"}
Join(dir, base) == [dir |-> dir, base |-> base]
Basename(path) == path.base
OutputDir == "output_dir"            \* os.path.dirname(input_file)
HomeDir == "home"                    \* os.path.expanduser('~')
InputFile == Join(OutputDir, "result.json")
train_file == Join(OutputDir, "train.json")
val_file == Join(OutputDir, "val.json")
test_file == Join(OutputDir, "test.json")

\* What the file system answers to open(path, 'w') + json.dump
WriteOutcomes == {"ok", "PermissionError", "OSError"}
FsAnswers == [primary : WriteOutcomes, fallback : {"ok", "OSError"}]
HealthyFs == [f \in Files |-> [primary |-> "ok", fallback |-> "ok"]]

\* -------------------------------------------------- the pure computations
\* (variant of RatiosOk: the comparison written <= instead of <)
RatiosOkInclusive(t, v, s) == Abs(t + v + s - RatioDen) <= Tolerance

\* line 16: abs(train_ratio + val_ratio + test_ratio - 1.0) < 1e-6
RatiosOk(t, v, s) == Abs(t + v + s - RatioDen) < Tolerance

\* lines 30-36: the image ids of the category-0 and category-1 annotations
cat1_image_ids(anns) ==
    {a.image_id : a \in {x \in Range(anns) : x.category_id = 0}}
cat2_image_ids(anns) ==
    {a.image_id : a \in {x \in Range(anns) : x.category_id = 1}}

\* lines 51-55: the images whose id is in either set, each dict once
RECURSIVE Cat2Images(_, _, _)
Cat2Images(imgs, anns, acc) ==
    IF imgs = <<>> THEN acc
    ELSE LET img == Head(imgs)
             hit == img.id \in cat2_image_ids(anns) \/ img.id \in cat1_image_ids(anns)
         IN  Cat2Images(Tail(imgs), anns,
                        IF hit /\ img \notin Range(acc) THEN Append(acc, img) ELSE acc)

\* lines 57-61: the images not in cat2_images, each dict once
RECURSIVE OtherImages(_, _, _)
OtherImages(imgs, cat2, acc) ==
    IF imgs = <<>> THEN acc
    ELSE LET img == Head(imgs)
         IN  OtherImages(Tail(imgs), cat2,
                         IF img \notin Range(cat2) /\ img \notin Range(acc)
                         THEN Append(acc, img) ELSE acc)

\* (variant of Reseed: the call to random.seed left out)
ReseedOmitted(seed, position) == position

\* line 67: random.seed(42) puts the generator at the start of the stream of
\* that seed, whatever its position was
Reseed(seed, position) == 0

\* The generator's raw stream is fixed by the seed but unknown to the model:
\* a value is chosen when a position is first read and is the same at every
\* later read.  Draws(st, pos, k) is every way to read k values from pos on.
Draws(st, pos, k) ==
    {d \in [1..k -> 0..(StreamMax - 1)] :
        \A i \in 1..k : pos + i <= Len(st) => d[i] = st[pos + i]}

Reveal(st, pos, d) ==
    IF pos + Len(d) <= Len(st) THEN st ELSE SubSeq(st, 1, pos) \o d

Swap(s, i, j) == [s EXCEPT ![i] = s[j], ![j] = s[i]]

\* line 71: random.shuffle(items): for i = n-1 down to 1 (0-based),
\* j = randbelow(i + 1), swap items[i] and items[j].  d[t] is the raw value
\* of the t-th draw and randbelow(n) is that value reduced to 0..n-1.
RECURSIVE ShuffleFrom(_, _, _)
ShuffleFrom(items, d, t) ==
    IF t > Len(items) - 1 THEN items
    ELSE LET i == Len(items) - t          \* 0-based index being filled
             j == d[t] % (i + 1)
         IN  ShuffleFrom(Swap(items, i + 1, j + 1), d, t + 1)

Shuffle(items, d) == ShuffleFrom(items, d, 1)

NumDraws(items) == IF Len(items) = 0 THEN 0 ELSE Len(items) - 1

\* lines 72-74: the two counts
train_count(total, train_r) == IntTrunc(total * train_r, RatioDen)
val_count(total, val_r) == IntTrunc(total * val_r, RatioDen)

\* lines 76-80: the three slices of the shuffled list
split_list(items, train_r, val_r, test_r) ==
    LET total == Len(items)
        tc == train_count(total, train_r)
        vc == val_count(total, val_r)
    IN  [train |-> PySlice(items, 0, tc),
         val |-> PySlice(items, tc, tc + vc),
         test |-> PySlice(items, tc + vc, total)]

\* lines 93-95
ImageIds(imgs) == {img.id : img \in Range(imgs)}

\* (variant of AnnotationsOf: the filter on the split's ids left out)
AnnotationsOfAnySplit(anns, imgs) == anns

\* (variant of AnnotationsOf: membership tested in the list of image dicts,
\* which no image_id equals)
AnnotationsOfDicts(anns, imgs) == SelectSeq(anns, LAMBDA a : FALSE)

\* lines 98-100: [ann for ann in annotations if ann['image_id'] in ids]
AnnotationsOf(anns, imgs) ==
    LET keep(a) == a.image_id \in ImageIds(imgs)
    IN  SelectSeq(anns, keep)

\* lines 103-107: count_by_category, for one category
RECURSIVE CountCategory(_, _)
CountCategory(anns, c) ==
    IF anns = <<>> THEN 0
    ELSE (IF Head(anns).category_id = c THEN 1 ELSE 0) + CountCategory(Tail(anns), c)

\* lines 143-164: save_json(data, file_path) under the file system's answer:
\* the write attempts it makes, in order, and its return value
IoEvent(op, path, data, outcome) ==
    [op |-> op, path |-> path, data |-> data, outcome |-> outcome]
WriteEvent(path, data, outcome) == IoEvent("write", path, data, outcome)

\* (variant of save_json: the first handler written "except Exception")
save_json_any_error(data, file_path, answer) ==
    IF answer.primary = "ok"
    THEN [events |-> <<WriteEvent(file_path, data, "ok")>>, ret |-> TRUE]
    ELSE LET fallback_path == Join(HomeDir, Basename(file_path))
         IN  [events |-> <<WriteEvent(file_path, data, answer.primary),
                           WriteEvent(fallback_path, data, answer.fallback)>>,
              ret |-> (answer.fallback = "ok")]

save_json(data, file_path, answer) ==
    IF answer.primary = "ok"
    THEN [events |-> <<WriteEvent(file_path, data, "ok")>>, ret |-> TRUE]
    ELSE IF answer.primary = "PermissionError"
    THEN LET fallback_path == Join(HomeDir, Basename(file_path))
         IN  [events |-> <<WriteEvent(file_path, data, "PermissionError"),
                           WriteEvent(fallback_path, data, answer.fallback)>>,
              ret |-> (answer.fallback = "ok")]
    ELSE [events |-> <<WriteEvent(file_path, data, answer.primary)>>, ret |-> FALSE]

\* (variant of AfterSave: a failed save ends the write phase)
AfterSaveStopOnFailure(next, ret) == IF ret THEN next ELSE "return"

\* lines 167-169: the return value of save_json is discarded; the next
\* statement runs whatever it was
AfterSave(next, ret) == next

\* (variant of AfterRead: the exception swallowed, the run goes on)
AfterReadSwallowed(ok) == "stratify"

\* lines 23-24: an exception of open or json.load leaves the function
AfterRead(ok) == IF ok THEN "stratify" ELSE "read_failed"

\* lines 122-130: create_output_data (info, licenses and categories are
\* copied verbatim into every output and are left out of the model)
create_output_data(images_subset, annotations_subset) ==
    [images |-> images_subset, annotations |-> annotations_subset]

NoData == create_output_data(<<>>, <<>>)
NoSplit == [train |-> <<>>, val |-> <<>>, test |-> <<>>]

\* ------------------------------------------------------------- the state
VARIABLES
    pc,             \* the statement about to run, or how the run ended
    run,            \* number of the current run in this process
    ratios,         \* <<train_ratio, val_ratio, test_ratio>> of the call
    readable,       \* whether open(input_file) + json.load succeed
    doc,            \* the content of the input file
    fs,             \* the file system's answer to the write of each output
    images, annotations,            \* data['images'], data['annotations']
    cat2_images, other_images,      \* the two strata
    rng,            \* position of the process-wide generator in its stream
    stream,         \* the raw values of the seed's stream read so far
    cat2_split, other_split,        \* cat2_train/val/test, other_train/val/test
    train_data, val_data, test_data,
    io,             \* the file operations of the run, in order
    saved,          \* the return values of the save_json calls, in order
    result,         \* the value returned, or the exception raised
    prev            \* the outputs of the previous run of the process

inputs == <<ratios, readable, doc, fs>>
locals == <<images, annotations, cat2_images, other_images, cat2_split,
            other_split, train_data, val_data, test_data>>
vars == <<pc, run, inputs, locals, rng, stream, io, saved, result, prev>>

train_ratio == ratios[1]
val_ratio == ratios[2]
test_ratio == ratios[3]

\* ---------------------------------------------------------------- inputs
ImageLists == SeqUpTo(ImageRecords, MaxImages)
AnnLists == SeqUpTo(AnnRecords, MaxAnns)

\* Every images list with a short annotations list, and every annotations
\* list with one of a few images lists
ShortAnnLists ==
    {<<>>, <<Ann(1, 0)>>, <<Ann(2, 1)>>, <<Ann(1, 2)>>,
     <<Ann(1, 0), Ann(2, 1)>>, <<Ann(1, 0), Ann(1, 0)>>, <<Ann(2, 1), Ann(4, 0)>>}
FewImageLists ==
    {<<Img(1), Img(2)>>, <<Img(1), ImgB(1), Img(2)>>, <<Img(3), Img(1), Img(2)>>}

\* One image carrying four category-0 annotations
HeavyDoc == [images |-> <<Img(1)>>,
             annotations |-> <<Ann(1, 0), Ann(1, 0), Ann(1, 0), Ann(1, 0)>>]

\* A document for the runs in which the file system misbehaves
PlainDoc == [images |-> <<Img(1), Img(2)>>, annotations |-> <<Ann(1, 0), Ann(2, 2)>>]

Docs ==
    [images : ImageLists, annotations : ShortAnnLists]
    \cup [images : FewImageLists, annotations : AnnLists]
    \cup {HeavyDoc}

Inputs ==
    [ratios : RatioChoices, readable : BOOLEAN, doc : Docs, fs : {HealthyFs}]
    \cup
    [ratios : {DefaultRatios}, readable : {TRUE}, doc : {PlainDoc},
     fs : [Files -> FsAnswers]]

StartLocals ==
    /\ images = <<>> /\ annotations = <<>>
    /\ cat2_images = <<>> /\ other_images = <<>>
    /\ cat2_split = NoSplit /\ other_split = NoSplit
    /\ train_data = NoData /\ val_data = NoData /\ test_data = NoData

Init ==
    /\ pc = "assert"
    /\ run = 1
    /\ \E i \in Inputs :
        /\ ratios = i.ratios /\ readable = i.readable /\ doc = i.doc /\ fs = i.fs
    /\ StartLocals
    /\ rng = 0
    /\ stream = <<>>
    /\ io = <<>> /\ saved = <<>>
    /\ result = "none"
    /\ prev = "none"

\* --------------------------------------------------------------- actions
\* line 16: the assertion on the ratios
CheckRatios ==
    /\ pc = "assert"
    /\ IF RatiosOk(train_ratio, val_ratio, test_ratio)
       THEN pc' = "read" /\ result' = result
       ELSE pc' = "assert_failed" /\ result' = "AssertionError"
    /\ UNCHANGED <<run, inputs, locals, rng, stream, io, saved, prev>>

\* lines 23-27: open and parse the input file, take its two lists
ReadInput ==
    /\ pc = "read"
    /\ pc' = AfterRead(readable)
    /\ IF readable
       THEN /\ io' = Append(io, IoEvent("read", InputFile, doc, "ok"))
            /\ images' = doc.images
            /\ annotations' = doc.annotations
            /\ result' = result
       ELSE /\ io' = Append(io, IoEvent("read", InputFile, NoData, "OSError"))
            /\ UNCHANGED <<images, annotations>>
            /\ result' = "OSError"
    /\ UNCHANGED <<run, inputs, cat2_images, other_images, cat2_split, other_split,
                   train_data, val_data, test_data, rng, stream, saved, prev>>

\* lines 29-61: the two strata
Stratify ==
    /\ pc = "stratify"
    /\ cat2_images' = Cat2Images(images, annotations, <<>>)
    /\ other_images' = OtherImages(images, cat2_images', <<>>)
    /\ pc' = "seed"
    /\ UNCHANGED <<run, inputs, images, annotations, cat2_split, other_split,
                   train_data, val_data, test_data, rng, stream, io, saved,
                   result, prev>>

\* line 67: random.seed(42)
SeedRandom ==
    /\ pc = "seed"
    /\ rng' = Reseed(Seed, rng)
    /\ pc' = "split_cat2"
    /\ UNCHANGED <<run, inputs, locals, stream, io, saved, result, prev>>

\* line 84: split_list(cat2_images, ...): shuffle in place, then slice
SplitCat2 ==
    /\ pc = "split_cat2"
    /\ \E d \in Draws(stream, rng, NumDraws(cat2_images)) :
        /\ cat2_images' = Shuffle(cat2_images, d)
        /\ stream' = Reveal(stream, rng, d)
        /\ rng' = rng + Len(d)
    /\ cat2_split' = split_list(cat2_images', train_ratio, val_ratio, test_ratio)
    /\ pc' = "split_other"
    /\ UNCHANGED <<run, inputs, images, annotations, other_images, other_split,
                   train_data, val_data, test_data, io, saved, result, prev>>

\* line 85: split_list(other_images, ...)
SplitOther ==
    /\ pc = "split_other"
    /\ \E d \in Draws(stream, rng, NumDraws(other_images)) :
        /\ other_images' = Shuffle(other_images, d)
        /\ stream' = Reveal(stream, rng, d)
        /\ rng' = rng + Len(d)
    /\ other_split' = split_list(other_images', train_ratio, val_ratio, test_ratio)
    /\ pc' = "project"
    /\ UNCHANGED <<run, inputs, images, annotations, cat2_images, cat2_split,
                   train_data, val_data, test_data, io, saved, result, prev>>

\* lines 88-135: merge the strata's parts, re-derive each split's annotations
\* and build the three output documents
Project ==
    /\ pc = "project"
    /\ LET train_images == cat2_split.train \o other_split.train
           val_images == cat2_split.val \o other_split.val
           test_images == cat2_split.test \o other_split.test
       IN  /\ train_data' = create_output_data(train_images,
                                AnnotationsOf(annotations, train_images))
           /\ val_data' = create_output_data(val_images,
                                AnnotationsOf(annotations, val_images))
           /\ test_data' = create_output_data(test_images,
                                AnnotationsOf(annotations, test_images))
    /\ pc' = "save_train"
    /\ UNCHANGED <<run, inputs, images, annotations, cat2_images, other_images,
                   cat2_split, other_split, rng, stream, io, saved, result, prev>>

\* lines 167-169: one call of save_json
Save(at, data, file_path, next) ==
    /\ pc = at
    /\ LET r == save_json(data, file_path, fs[Basename(file_path)])
       IN  /\ io' = io \o r.events
           /\ saved' = Append(saved, r.ret)
           /\ pc' = AfterSave(next, r.ret)
    /\ UNCHANGED <<run, inputs, locals, rng, stream, result, prev>>

SaveTrain == Save("save_train", train_data, train_file, "save_val")
SaveVal == Save("save_val", val_data, val_file, "save_test")
SaveTest == Save("save_test", test_data, test_file, "return")

\* line 176
Return ==
    /\ pc = "return"
    /\ result' = <<train_file, val_file, test_file>>
    /\ pc' = "done"
    /\ UNCHANGED <<run, inputs, locals, rng, stream, io, saved, prev>>

\* The same call again in the same process: the generator keeps its state,
\* everything local to the call starts afresh
Rerun ==
    /\ pc = "done"
    /\ run < MaxRuns
    /\ run' = run + 1
    /\ prev' = <<train_data, val_data, test_data>>
    /\ pc' = "assert"
    /\ images' = <<>> /\ annotations' = <<>>
    /\ cat2_images' = <<>> /\ other_images' = <<>>
    /\ cat2_split' = NoSplit /\ other_split' = NoSplit
    /\ train_data' = NoData /\ val_data' = NoData /\ test_data' = NoData
    /\ io' = <<>> /\ saved' = <<>>
    /\ result' = "none"
    /\ UNCHANGED <<inputs, rng, stream>>

Next ==
    \/ CheckRatios
    \/ ReadInput
    \/ Stratify
    \/ SeedRandom
    \/ SplitCat2
    \/ SplitOther
    \/ Project
    \/ SaveTrain
    \/ SaveVal
    \/ SaveTest
    \/ Return
    \/ Rerun

Spec == Init /\ [][Next]_vars

\* ---------------------------------------------------------------- claims
\* The three output documents exist from the end of Project on
Projected == pc \in {"save_train", "save_val", "save_test", "return", "done"}
\* Both strata are split from the end of SplitOther on
Split == Projected \/ pc = "project"

Outputs == <<train_data, val_data, test_data>>
OutputSet == {train_data, val_data, test_data}

DistinctIds(imgs) == \A i, j \in 1..Len(imgs) : imgs[i].id = imgs[j].id => i = j

WriteEvents == SelectSeq(io, LAMBDA e : e.op = "write")
PrimaryWrites == SelectSeq(io, LAMBDA e : e.op = "write" /\ e.path.dir = OutputDir)
WritesOf(f) == SelectSeq(io, LAMBDA e : e.op = "write" /\ Basename(e.path) = f)
FileOrder == <<"train.json", "val.json", "test.json">>

RECURSIVE SumOver(_, _)
SumOver(S, f) ==
    IF S = {} THEN 0
    ELSE LET x == CHOOSE y \in S : TRUE IN f[x] + SumOver(S \ {x}, f)

\* Number of entries of the list anns equal to a
Occurrences(anns, a) == Cardinality({i \in 1..Len(anns) : anns[i] = a})

\* C1: every annotation of an output split has the id of an image of that
\* same split's images list.
C1_AnnotationsReferenceOwnSplit ==
    Projected =>
        \A d \in OutputSet :
            \A k \in 1..Len(d.annotations) :
                \E m \in 1..Len(d.images) : d.images[m].id = d.annotations[k].image_id

\* C1 witness: train carries an annotation while the input also holds an
\* annotation of an image id that train does not have.
C1_Witness ==
    /\ Projected
    /\ train_data.annotations # <<>>
    /\ \E a \in Range(annotations) : a.image_id \notin ImageIds(train_data.images)
    /\ \E a \in Range(annotations) : a.image_id \notin ImageIds(images)

\* C2: with pairwise distinct image ids, the three image lists partition the
\* input images: disjoint id sets, union all ids, lengths summing to len(images).
C2_ExactPartition ==
    (Projected /\ DistinctIds(images)) =>
        /\ ImageIds(train_data.images) \cap ImageIds(val_data.images) = {}
        /\ ImageIds(train_data.images) \cap ImageIds(test_data.images) = {}
        /\ ImageIds(val_data.images) \cap ImageIds(test_data.images) = {}
        /\ ImageIds(train_data.images) \cup ImageIds(val_data.images)
              \cup ImageIds(test_data.images) = ImageIds(images)
        /\ Len(train_data.images) + Len(val_data.images) + Len(test_data.images)
              = Len(images)

\* C3: ratios whose sum is 1e-6 or more away from 1 end the call at the
\* assertion, with no file opened and nothing written.
RatioSumOff == Abs(train_ratio + val_ratio + test_ratio - RatioDen) >= Tolerance

C3_BadRatiosFailBeforeIO ==
    RatioSumOff =>
        /\ pc \in {"assert", "assert_failed"}
        /\ io = <<>>
        /\ saved = <<>>
        /\ (pc = "assert_failed" => result = "AssertionError")

C3_Witness ==
    /\ pc = "assert_failed"
    /\ ratios = <<8000000, 1000000, 500000>>
    /\ io = <<>>

\* C4: for each output file already saved: a primary write that fails with a
\* permission error is followed by exactly one write, to home + base name,
\* whose success is save_json's return value; any other primary outcome is
\* the file's only write.
C4_FallbackOnlyOnPermissionError ==
    \A k \in 1..Len(saved) :
        LET f == FileOrder[k]
            w == WritesOf(f)
        IN  /\ Len(w) >= 1
            /\ w[1].path = Join(OutputDir, f)
            /\ w[1].outcome = fs[f].primary
            /\ IF fs[f].primary = "PermissionError"
               THEN /\ Len(w) = 2
                    /\ w[2].path = Join(HomeDir, f)
                    /\ w[2].outcome = fs[f].fallback
                    /\ w[2].data = w[1].data
                    /\ saved[k] = (fs[f].fallback = "ok")
               ELSE /\ Len(w) = 1
                    /\ saved[k] = (fs[f].primary = "ok")

C4_Witness ==
    /\ Len(saved) >= 2
    /\ fs["train.json"].primary = "PermissionError"
    /\ fs["train.json"].fallback = "ok"
    /\ saved[1] = TRUE
    /\ fs["val.json"].primary = "OSError"
    /\ saved[2] = FALSE
    /\ Len(WriteEvents) = 3

\* C5: in the write phase the primary writes made so far are those of
\* train.json, val.json, test.json in that order, one each, whatever the
\* earlier saves returned; the run ends returning the three primary paths.
WritePhasePrimaries ==
    CASE pc = "save_train" -> <<>>
      [] pc = "save_val" -> <<train_file>>
      [] pc = "save_test" -> <<train_file, val_file>>
      [] OTHER -> <<train_file, val_file, test_file>>

C5_EveryFileAttemptedOnce ==
    Projected =>
        /\ [i \in 1..Len(PrimaryWrites) |-> PrimaryWrites[i].path] = WritePhasePrimaries
        /\ Len(saved) = Len(WritePhasePrimaries)
        /\ (pc = "done" => result = <<train_file, val_file, test_file>>)

C5_Witness ==
    /\ pc = "done"
    /\ saved = <<FALSE, FALSE, TRUE>>
    /\ fs["train.json"].primary = "OSError"
    /\ fs["val.json"] = [primary |-> "PermissionError", fallback |-> "OSError"]
    /\ Len(PrimaryWrites) = 3

\* C6: a later run on the same input and ratios builds the same three
\* output documents as the run before it.
C6_SameOutputsEveryRun ==
    (run > 1 /\ Projected) => Outputs = prev

C6_Witness ==
    /\ run > 1
    /\ pc = "done"
    /\ Len(cat2_images) >= 2
    /\ Len(other_images) >= 1
    /\ train_data.images # <<>>
    /\ test_data.images # <<>>
    /\ Outputs = prev

\* C7 (as stated): for valid input, each split's count of category-0 and of
\* category-1 annotations is within a deviation of ratio * total that the
\* size of the priority stratum and the floor rounding bound, however many
\* such annotations an image carries.
ValidInput ==
    /\ DistinctIds(images)
    /\ \A a \in Range(annotations) : a.image_id \in ImageIds(images)
    /\ \A i \in 1..3 : ratios[i] >= 0 /\ ratios[i] <= RatioDen

Deviation(d, r, c) ==
    Abs(RatioDen * CountCategory(d.annotations, c) - r * CountCategory(annotations, c))

PerImageCount(c) ==
    [i \in ImageIds(images) |->
        Cardinality({k \in 1..Len(annotations) :
            annotations[k].image_id = i /\ annotations[k].category_id = c})]

C8_ReadFailureWritesNothing ==
    (~readable) =>
        /\ pc \in {"assert", "assert_failed", "read", "read_failed"}
        /\ WriteEvents = <<>>
        /\ saved = <<>>
        /\ (pc = "read_failed" => result = "OSError")

C8_Witness ==
    /\ pc = "read_failed"
    /\ ~readable
    /\ doc.images # <<>>
    /\ Len(io) = 1
    /\ io[1].op = "read" /\ io[1].outcome = "OSError"

\* C9: the priority stratum is the images whose id a category-0 or
\* category-1 annotation references, the other stratum the rest, and a
\* stratum of n images is cut into floor(n * train_ratio) train items,
\* floor(n * val_ratio) val items and the remaining n minus both test items;
\* 4 priority and 6 other images at 0.8/0.1/0.1 give train 3 + 4 = 7.
Floor(num, den) == num \div den

PriorityIds ==
    {a.image_id : a \in {x \in Range(annotations) : x.category_id \in {0, 1}}}

FloorSplitOf(stratum, parts) ==
    LET n == Len(stratum)
        tn == Floor(n * train_ratio, RatioDen)
        vn == Floor(n * val_ratio, RatioDen)
    IN  /\ Len(parts.train) = tn
        /\ Len(parts.val) = vn
        /\ Len(parts.test) = n - tn - vn

C9_FloorThenRemainder ==
    Split =>
        /\ Range(cat2_images) = {img \in Range(images) : img.id \in PriorityIds}
        /\ Range(other_images) = {img \in Range(images) : img.id \notin PriorityIds}
        /\ FloorSplitOf(cat2_images, cat2_split)
        /\ FloorSplitOf(other_images, other_split)
        /\ train_count(4, DefaultRatios[1]) + train_count(6, DefaultRatios[1]) = 7

====
